---- MODULE Spec2Model ----
(***************************************************************************)
(* OpenVR-AdvancedSettings, src/ivrinput/ivrinput.cpp: the SteamIVRInput   *)
(* wrapper around the OpenVR action input API (vr::VRInput()).             *)
(*                                                                         *)
(* The wrapper's own state is the SteamIVRInput object (`this`): the       *)
(* Action members and the active action set descriptor.  Everything else   *)
(* is the state of the external runtime, which the code only reads:        *)
(*   rtDigital    per action handle, the digital state the runtime holds   *)
(*                (bState, bChanged).  OpenVR computes it in               *)
(*                UpdateActionState and answers every Get*ActionData call  *)
(*                from it until the next UpdateActionState.                *)
(*   rtGetError   the error code the runtime answers Get*ActionData with,  *)
(*                likewise fixed between two UpdateActionState calls.      *)
(*   bindings     the actions the user's controller binding binds to a     *)
(*                button; an unbound action is never reported pressed.     *)
(* `last` records the latest call into the wrapper and what it did (what   *)
(* it returned or threw, what it logged, which runtime calls it made).     *)
(* `sinceFire`, and the fields prior and before of `last`, are history:     *)
(* they steer no code.                                                     *)
(***************************************************************************)
EXTENDS Integers, Sequences, FiniteSets, TLC

VARIABLES this, rtDigital, rtGetError, bindings, last, sinceFire

vars == <<this, rtDigital, rtGetError, bindings, last, sinceFire>>

(* ------------------------------ bounds -------------------------------- *)

\* At most this many actions are bound to a physical button.
MaxBound == 1

\* The runtime's analog readings are drawn from 0..MaxAnalog.
MaxAnalog == 1

(* ------------------------- external constants ------------------------- *)

Digital == "Digital"

Analog == "Analog"

VRInputError_None == "VRInputError_None"

\* The error codes the runtime answers with (EVRInputError), one failure
\* standing for all codes other than VRInputError_None: the code only
\* compares against VRInputError_None.
InputErrors == {VRInputError_None, "VRInputError_InvalidHandle"}

k_ulInvalidInputValueHandle == 0

\* constexpr auto numberOfSets = 1;
numberOfSets == 1

k_setMain == "k_setMain"

\* The action names of the manifest, in the order of the constructor's
\* initializer list.
ManifestActions ==
    << "k_actionNextTrack", "k_actionPreviousTrack", "k_actionPausePlayTrack",
       "k_actionStopTrack", "k_actionLeftHandRoomTurn",
       "k_actionRightHandRoomTurn", "k_actionLeftHandRoomDrag",
       "k_actionRightHandRoomDrag", "k_actionOptionalOverrideLeftHandRoomTurn",
       "k_actionOptionalOverrideRightHandRoomTurn",
       "k_actionOptionalOverrideLeftHandRoomDrag",
       "k_actionOptionalOverrideRightHandRoomDrag", "k_actionPushToTalk" >>

\* An analog action of the manifest; SteamIVRInput declares none, a caller
\* of getAnalogActionData has to bring its own.
k_actionAnalog == "k_actionAnalog"

(* ---------------------- Action and ActionSet -------------------------- *)

\* The runtime resolves a name to an opaque handle, one per name.
VRInput_GetActionHandle(name) ==
    IF name = k_actionAnalog
    THEN Len(ManifestActions) + 1
    ELSE CHOOSE i \in 1..Len(ManifestActions) : ManifestActions[i] = name

VRInput_GetActionSetHandle(name) == Len(ManifestActions) + 2

\* Action( name, type ): the handle is resolved once, in the constructor.
Action(name, type) ==
    [name |-> name, type |-> type, handle |-> VRInput_GetActionHandle(name)]

ActionSet(name) ==
    [name |-> name, handle |-> VRInput_GetActionSetHandle(name)]

\* vr::InputDigitalActionData_t handleData = {};
ZeroDigitalActionData == [bState |-> FALSE, bChanged |-> FALSE]

\* vr::InputAnalogActionData_t handleData = {};
ZeroAnalogActionData == [bActive |-> FALSE, x |-> 0]

(* --------------------------- the runtime ------------------------------ *)

DigitalHandles == 1..Len(ManifestActions)

\* vr::VRInput()->GetDigitalActionData( handle, &handleData, size, restrict ):
\* the error code, and handleData as the runtime leaves it: filled from the
\* runtime's state on success, untouched on an error.  A handle that is not
\* one of a digital action is an error of its own (VRInputError_WrongType).
VRInput_GetDigitalActionData(handle, handleData) ==
    IF rtGetError # VRInputError_None
    THEN [error |-> rtGetError, data |-> handleData]
    ELSE IF handle \notin DigitalHandles
    THEN [error |-> "VRInputError_WrongType", data |-> handleData]
    ELSE [error |-> VRInputError_None, data |-> rtDigital[handle]]

\* vr::VRInput()->GetAnalogActionData( ... ); `reading` is the runtime's
\* current analog value.
VRInput_GetAnalogActionData(handle, handleData, reading) ==
    IF rtGetError # VRInputError_None
    THEN [error |-> rtGetError, data |-> handleData]
    ELSE [error |-> VRInputError_None,
          data |-> [bActive |-> TRUE, x |-> reading]]

\* vr::VRInput()->UpdateActionState( sets, size, count ): the runtime samples
\* the buttons (`sample`: the handles that are down) and recomputes every
\* action's state; bChanged says whether bState differs from the update
\* before.  A failed update leaves the runtime's action state as it was.
VRInput_UpdateActionState(error, sample) ==
    IF error # VRInputError_None
    THEN rtDigital
    ELSE [h \in DigitalHandles |->
            [bState |-> h \in sample,
             bChanged |-> (h \in sample) # rtDigital[h].bState]]

(* ------------------------ the wrapper's code -------------------------- *)

\* What a call did: threw or returned, the value (ret: the bool of the
\* digital reductions; digital, analog: the handleData obtained), the
\* runtime's error code, the LOG( ERROR ) lines and the runtime calls made.
Outcome(action) ==
    [arg |-> action.name, type |-> action.type, handle |-> action.handle,
     threw |-> FALSE,
     returned |-> FALSE, ret |-> FALSE, digital |-> ZeroDigitalActionData,
     analog |-> ZeroAnalogActionData, error |-> VRInputError_None,
     log |-> <<>>, calls |-> <<>>]

\* Variant: the type check logs but does not throw, and the query goes on.
getDigitalActionData_noThrow(action) ==
    LET handleData == ZeroDigitalActionData
        got == VRInput_GetDigitalActionData(action.handle, handleData)
    IN  [Outcome(action) EXCEPT
           !.returned = TRUE,
           !.digital = got.data,
           !.error = got.error,
           !.log = (IF action.type # Digital
                    THEN << "Action was passed to IVRInput getDigitalActionData without being a digital type." >>
                    ELSE <<>>)
                   \o (IF got.error # VRInputError_None
                       THEN << "Error getting IVRInput Digital Action Data for handle" >>
                       ELSE <<>>),
           !.calls = << [fn |-> "GetDigitalActionData",
                         handle |-> action.handle,
                         restrict |-> k_ulInvalidInputValueHandle] >>]

\* Variant: handleData is declared without the `= {}`, and holds whatever
\* the stack held.
getDigitalActionData_uninitialized(action) ==
    IF action.type # Digital
    THEN [Outcome(action) EXCEPT
            !.threw = TRUE,
            !.log = << "Action was passed to IVRInput getDigitalActionData without being a digital type." >>]
    ELSE LET handleData == [bState |-> TRUE, bChanged |-> TRUE]
             got == VRInput_GetDigitalActionData(action.handle, handleData)
         IN  [Outcome(action) EXCEPT
                !.returned = TRUE,
                !.digital = got.data,
                !.error = got.error,
                !.log = IF got.error # VRInputError_None
                        THEN << "Error getting IVRInput Digital Action Data for handle" >>
                        ELSE <<>>,
                !.calls = << [fn |-> "GetDigitalActionData",
                              handle |-> action.handle,
                              restrict |-> k_ulInvalidInputValueHandle] >>]

getDigitalActionData(action) ==
    IF action.type # Digital
    THEN [Outcome(action) EXCEPT
            !.threw = TRUE,
            !.log = << "Action was passed to IVRInput getDigitalActionData without being a digital type." >>]
    ELSE LET handleData == ZeroDigitalActionData
             got == VRInput_GetDigitalActionData(action.handle, handleData)
         IN  [Outcome(action) EXCEPT
                !.returned = TRUE,
                !.digital = got.data,
                !.error = got.error,
                !.log = IF got.error # VRInputError_None
                        THEN << "Error getting IVRInput Digital Action Data for handle" >>
                        ELSE <<>>,
                !.calls = << [fn |-> "GetDigitalActionData",
                              handle |-> action.handle,
                              restrict |-> k_ulInvalidInputValueHandle] >>]

getAnalogActionData(action, reading) ==
    IF action.type # Analog
    THEN [Outcome(action) EXCEPT
            !.threw = TRUE,
            !.log = << "Action was passed to IVRInput getAnalogActionData without being an analog type." >>]
    ELSE LET handleData == ZeroAnalogActionData
             got == VRInput_GetAnalogActionData(action.handle, handleData,
                                                reading)
         IN  [Outcome(action) EXCEPT
                !.returned = TRUE,
                !.analog = got.data,
                !.error = got.error,
                !.log = IF got.error # VRInputError_None
                        THEN << "Error getting IVRInput Digital Action Data for handle" >>
                        ELSE <<>>,
                !.calls = << [fn |-> "GetAnalogActionData",
                              handle |-> action.handle,
                              restrict |-> k_ulInvalidInputValueHandle] >>]

\* Variant: returns bChanged alone.
isDigitalActionActivatedOnce_changedOnly(action) ==
    LET handleData == getDigitalActionData(action)
    IN  IF handleData.threw
        THEN handleData
        ELSE [handleData EXCEPT !.ret = handleData.digital.bChanged]

\* Variant: returns bState alone.
isDigitalActionActivatedOnce_stateOnly(action) ==
    LET handleData == getDigitalActionData(action)
    IN  IF handleData.threw
        THEN handleData
        ELSE [handleData EXCEPT !.ret = handleData.digital.bState]

isDigitalActionActivatedOnce(action) ==
    LET handleData == getDigitalActionData(action)
    IN  IF handleData.threw
        THEN handleData
        ELSE [handleData EXCEPT
                !.ret = handleData.digital.bState /\ handleData.digital.bChanged]

isDigitalActionActivatedConstant(action) ==
    LET handleData == getDigitalActionData(action)
    IN  IF handleData.threw
        THEN handleData
        ELSE [handleData EXCEPT !.ret = handleData.digital.bState]

\* SteamIVRInput::SteamIVRInput(): the object after construction.
\* Variant: the push-to-talk action is declared with ActionType::Analog.
SteamIVRInput_analogPushToTalk ==
    LET m_mainSet == ActionSet(k_setMain)
    IN  [m_mainSet |-> m_mainSet,
         m_nextTrack |-> Action("k_actionNextTrack", Digital),
         m_previousTrack |-> Action("k_actionPreviousTrack", Digital),
         m_pausePlayTrack |-> Action("k_actionPausePlayTrack", Digital),
         m_stopTrack |-> Action("k_actionStopTrack", Digital),
         m_leftHandRoomTurn |-> Action("k_actionLeftHandRoomTurn", Digital),
         m_rightHandRoomTurn |-> Action("k_actionRightHandRoomTurn", Digital),
         m_leftHandRoomDrag |-> Action("k_actionLeftHandRoomDrag", Digital),
         m_rightHandRoomDrag |-> Action("k_actionRightHandRoomDrag", Digital),
         m_optionalOverrideLeftHandRoomTurn |->
             Action("k_actionOptionalOverrideLeftHandRoomTurn", Digital),
         m_optionalOverrideRightHandRoomTurn |->
             Action("k_actionOptionalOverrideRightHandRoomTurn", Digital),
         m_optionalOverrideLeftHandRoomDrag |->
             Action("k_actionOptionalOverrideLeftHandRoomDrag", Digital),
         m_optionalOverrideRightHandRoomDrag |->
             Action("k_actionOptionalOverrideRightHandRoomDrag", Digital),
         m_pushToTalk |-> Action("k_actionPushToTalk", Analog),
         m_activeActionSet |->
             [ulActionSet |-> m_mainSet.handle,
              ulRestrictedToDevice |-> k_ulInvalidInputValueHandle,
              nPriority |-> 0]]

SteamIVRInput ==
    LET m_mainSet == ActionSet(k_setMain)
    IN  [m_mainSet |-> m_mainSet,
         m_nextTrack |-> Action("k_actionNextTrack", Digital),
         m_previousTrack |-> Action("k_actionPreviousTrack", Digital),
         m_pausePlayTrack |-> Action("k_actionPausePlayTrack", Digital),
         m_stopTrack |-> Action("k_actionStopTrack", Digital),
         m_leftHandRoomTurn |-> Action("k_actionLeftHandRoomTurn", Digital),
         m_rightHandRoomTurn |-> Action("k_actionRightHandRoomTurn", Digital),
         m_leftHandRoomDrag |-> Action("k_actionLeftHandRoomDrag", Digital),
         m_rightHandRoomDrag |-> Action("k_actionRightHandRoomDrag", Digital),
         m_optionalOverrideLeftHandRoomTurn |->
             Action("k_actionOptionalOverrideLeftHandRoomTurn", Digital),
         m_optionalOverrideRightHandRoomTurn |->
             Action("k_actionOptionalOverrideRightHandRoomTurn", Digital),
         m_optionalOverrideLeftHandRoomDrag |->
             Action("k_actionOptionalOverrideLeftHandRoomDrag", Digital),
         m_optionalOverrideRightHandRoomDrag |->
             Action("k_actionOptionalOverrideRightHandRoomDrag", Digital),
         m_pushToTalk |-> Action("k_actionPushToTalk", Digital),
         m_activeActionSet |->
             [ulActionSet |-> m_mainSet.handle,
              ulRestrictedToDevice |-> k_ulInvalidInputValueHandle,
              nPriority |-> 0]]

nextSong == isDigitalActionActivatedOnce(this.m_nextTrack)

previousSong == isDigitalActionActivatedOnce(this.m_previousTrack)

pausePlaySong == isDigitalActionActivatedOnce(this.m_pausePlayTrack)

stopSong == isDigitalActionActivatedOnce(this.m_stopTrack)

\* Variant: queries the right hand's action.
leftHandRoomTurn_otherHand ==
    isDigitalActionActivatedConstant(this.m_rightHandRoomTurn)

leftHandRoomTurn == isDigitalActionActivatedConstant(this.m_leftHandRoomTurn)

rightHandRoomTurn == isDigitalActionActivatedConstant(this.m_rightHandRoomTurn)

leftHandRoomDrag == isDigitalActionActivatedConstant(this.m_leftHandRoomDrag)

rightHandRoomDrag == isDigitalActionActivatedConstant(this.m_rightHandRoomDrag)

optionalOverrideLeftHandRoomTurn ==
    isDigitalActionActivatedConstant(this.m_optionalOverrideLeftHandRoomTurn)

optionalOverrideRightHandRoomTurn ==
    isDigitalActionActivatedConstant(this.m_optionalOverrideRightHandRoomTurn)

optionalOverrideLeftHandRoomDrag ==
    isDigitalActionActivatedConstant(this.m_optionalOverrideLeftHandRoomDrag)

optionalOverrideRightHandRoomDrag ==
    isDigitalActionActivatedConstant(this.m_optionalOverrideRightHandRoomDrag)

\* Variant: push-to-talk as a press edge.
pushToTalk_once == isDigitalActionActivatedOnce(this.m_pushToTalk)

pushToTalk == isDigitalActionActivatedConstant(this.m_pushToTalk)

\* The public bool accessors of SteamIVRInput, by name.
AccessorNames ==
    {"nextSong", "previousSong", "pausePlaySong", "stopSong",
     "leftHandRoomTurn", "rightHandRoomTurn", "leftHandRoomDrag",
     "rightHandRoomDrag", "optionalOverrideLeftHandRoomTurn",
     "optionalOverrideRightHandRoomTurn", "optionalOverrideLeftHandRoomDrag",
     "optionalOverrideRightHandRoomDrag", "pushToTalk"}

\* What the accessor named op does if it is called now.
Accessor(op) ==
    CASE op = "nextSong" -> nextSong
      [] op = "previousSong" -> previousSong
      [] op = "pausePlaySong" -> pausePlaySong
      [] op = "stopSong" -> stopSong
      [] op = "leftHandRoomTurn" -> leftHandRoomTurn
      [] op = "rightHandRoomTurn" -> rightHandRoomTurn
      [] op = "leftHandRoomDrag" -> leftHandRoomDrag
      [] op = "rightHandRoomDrag" -> rightHandRoomDrag
      [] op = "optionalOverrideLeftHandRoomTurn" ->
            optionalOverrideLeftHandRoomTurn
      [] op = "optionalOverrideRightHandRoomTurn" ->
            optionalOverrideRightHandRoomTurn
      [] op = "optionalOverrideLeftHandRoomDrag" ->
            optionalOverrideLeftHandRoomDrag
      [] op = "optionalOverrideRightHandRoomDrag" ->
            optionalOverrideRightHandRoomDrag
      [] op = "pushToTalk" -> pushToTalk

\* The accessors documented to fire once per press.
SongAccessors == {"nextSong", "previousSong", "pausePlaySong", "stopSong"}

\* The accessors that pass their action to isDigitalActionActivatedConstant.
HoldAccessors == AccessorNames \ SongAccessors

(* ------------------------ history bookkeeping -------------------------- *)

\* sinceFire[op], for a song accessor: "none" when op has not returned true
\* since the runtime last saw its button up; "same" when it has, and no
\* update has succeeded since; "held" when it has, and a later successful
\* update saw the button still down.
FireStates == {"none", "same", "held"}

AfterPoll(op, r) ==
    IF op \in SongAccessors /\ r.ret /\ sinceFire[op] = "none"
    THEN [sinceFire EXCEPT ![op] = "same"]
    ELSE sinceFire

AfterUpdate(error, sample) ==
    IF error # VRInputError_None
    THEN sinceFire
    ELSE [op \in SongAccessors |->
            IF Accessor(op).handle \notin sample THEN "none"
            ELSE IF sinceFire[op] = "same" THEN "held"
            ELSE sinceFire[op]]

Prior(op) == IF op \in SongAccessors THEN sinceFire[op] ELSE "none"

\* What each accessor returns if it is called now: recorded with a call, it
\* is what any accessor would have returned in that call's place.
Before == [b \in AccessorNames |-> Accessor(b).ret]

(* ------------------------------ actions -------------------------------- *)

NoAction == [name |-> "", type |-> "", handle |-> k_ulInvalidInputValueHandle]

Init ==
    /\ this = SteamIVRInput
    /\ rtDigital = [h \in DigitalHandles |-> ZeroDigitalActionData]
    /\ rtGetError \in InputErrors
    /\ bindings \in {b \in SUBSET DigitalHandles : Cardinality(b) <= MaxBound}
    /\ last = [op |-> "SteamIVRInput", prior |-> "none", before |-> <<>>] @@ Outcome(NoAction)
    /\ sinceFire = [op \in SongAccessors |-> "none"]

\* Variant: reading an action consumes its changed flag.
Poll_consume ==
    \E op \in AccessorNames :
        LET r == Accessor(op)
        IN  /\ last' = [op |-> op, prior |-> Prior(op), before |-> Before] @@ r
            /\ sinceFire' = AfterPoll(op, r)
            /\ rtDigital' = IF r.handle \in DigitalHandles
                            THEN [rtDigital EXCEPT ![r.handle].bChanged = FALSE]
                            ELSE rtDigital
            /\ UNCHANGED <<this, rtGetError, bindings>>

\* A call of one of the public accessors.
Poll ==
    \E op \in AccessorNames :
        LET r == Accessor(op)
        IN  /\ last' = [op |-> op, prior |-> Prior(op), before |-> Before] @@ r
            /\ sinceFire' = AfterPoll(op, r)
            /\ UNCHANGED <<this, rtDigital, rtGetError, bindings>>

\* Variant: a failed update is tried once more.
UpdateStatesBody_retry(error) ==
    LET call == [fn |-> "UpdateActionState",
                 sets |-> << this.m_activeActionSet >>,
                 count |-> numberOfSets]
    IN  [Outcome(NoAction) EXCEPT
           !.returned = TRUE,
           !.error = error,
           !.log = IF error # VRInputError_None
                   THEN << "Error during IVRInput action state update." >>
                   ELSE <<>>,
           !.calls = IF error # VRInputError_None
                     THEN << call, call >> ELSE << call >>]

\* The body of SteamIVRInput::UpdateStates() as seen by its caller, `error`
\* being what the one UpdateActionState call returns.
UpdateStatesBody(error) ==
    [Outcome(NoAction) EXCEPT
       !.returned = TRUE,
       !.error = error,
       !.log = IF error # VRInputError_None
               THEN << "Error during IVRInput action state update." >>
               ELSE <<>>,
       !.calls = << [fn |-> "UpdateActionState",
                     sets |-> << this.m_activeActionSet >>,
                     count |-> numberOfSets] >>]

\* Variant: every update raises the active set's priority.
UpdateStates_raisePriority ==
    \E error \in InputErrors :
      \E sample \in IF error = VRInputError_None
                    THEN SUBSET bindings ELSE {{}},
         getError \in IF error = VRInputError_None
                      THEN InputErrors ELSE {rtGetError} :
        /\ rtDigital' = VRInput_UpdateActionState(error, sample)
        /\ rtGetError' = IF error # VRInputError_None
                         THEN rtGetError ELSE getError
        /\ last' = [op |-> "UpdateStates", prior |-> "none",
                    before |-> <<>>] @@
                   UpdateStatesBody(error)
        /\ sinceFire' = AfterUpdate(error, sample)
        /\ this' = [this EXCEPT !.m_activeActionSet.nPriority = 1]
        /\ UNCHANGED bindings

\* SteamIVRInput::UpdateStates(): `error` is what UpdateActionState returns,
\* `sample` the buttons the runtime finds down, `getError` what it will
\* answer the Get*ActionData calls with from now on (a failed update takes
\* no sample and changes no answer).
UpdateStates ==
    \E error \in InputErrors :
      \E sample \in IF error = VRInputError_None
                    THEN SUBSET bindings ELSE {{}},
         getError \in IF error = VRInputError_None
                      THEN InputErrors ELSE {rtGetError} :
        /\ rtDigital' = VRInput_UpdateActionState(error, sample)
        /\ rtGetError' = IF error # VRInputError_None
                         THEN rtGetError ELSE getError
        /\ last' = [op |-> "UpdateStates", prior |-> "none",
                    before |-> <<>>] @@
                   UpdateStatesBody(error)
        /\ sinceFire' = AfterUpdate(error, sample)
        /\ UNCHANGED <<this, bindings>>

\* The members of SteamIVRInput that are Action objects.
Members ==
    {this.m_nextTrack, this.m_previousTrack, this.m_pausePlayTrack,
     this.m_stopTrack, this.m_leftHandRoomTurn, this.m_rightHandRoomTurn,
     this.m_leftHandRoomDrag, this.m_rightHandRoomDrag,
     this.m_optionalOverrideLeftHandRoomTurn,
     this.m_optionalOverrideRightHandRoomTurn,
     this.m_optionalOverrideLeftHandRoomDrag,
     this.m_optionalOverrideRightHandRoomDrag, this.m_pushToTalk}

\* The Action objects the free functions are called with: every member
\* whose action is bound to a button, one member whatever its binding, and
\* an analog action, which SteamIVRInput does not declare.  Members whose
\* action is not bound are all alike to the runtime (never pressed).
FreeActions ==
    {a \in Members : a.handle \in bindings}
        \cup {this.m_nextTrack, Action(k_actionAnalog, Analog)}

\* A direct call of the free function getDigitalActionData.
CallGetDigitalActionData ==
    \E action \in FreeActions :
        /\ last' = [op |-> "getDigitalActionData", prior |-> "none",
                    before |-> <<>>] @@
                   getDigitalActionData(action)
        /\ UNCHANGED <<this, rtDigital, rtGetError, bindings, sinceFire>>

\* A direct call of the free function getAnalogActionData.
CallGetAnalogActionData ==
    \E action \in FreeActions :
      \E reading \in IF action.type = Analog THEN 0..MaxAnalog ELSE {0} :
        /\ last' = [op |-> "getAnalogActionData", prior |-> "none",
                    before |-> <<>>] @@
                   getAnalogActionData(action, reading)
        /\ UNCHANGED <<this, rtDigital, rtGetError, bindings, sinceFire>>

\* A direct call of the free function isDigitalActionActivatedOnce.
CallIsDigitalActionActivatedOnce ==
    \E action \in FreeActions :
        /\ last' = [op |-> "isDigitalActionActivatedOnce", prior |-> "none",
                    before |-> <<>>] @@
                   isDigitalActionActivatedOnce(action)
        /\ UNCHANGED <<this, rtDigital, rtGetError, bindings, sinceFire>>

\* A direct call of the free function isDigitalActionActivatedConstant.
CallIsDigitalActionActivatedConstant ==
    \E action \in FreeActions :
        /\ last' = [op |-> "isDigitalActionActivatedConstant",
                    prior |-> "none", before |-> <<>>] @@
                   isDigitalActionActivatedConstant(action)
        /\ UNCHANGED <<this, rtDigital, rtGetError, bindings, sinceFire>>

\* The application: SteamIVRInput's public interface.
Next == Poll \/ UpdateStates

Spec == Init /\ [][Next]_vars

\* A caller of the free functions of namespace input, with the per-frame
\* update of the runtime.
NextFree ==
    \/ UpdateStates
    \/ CallGetDigitalActionData
    \/ CallGetAnalogActionData
    \/ CallIsDigitalActionActivatedOnce
    \/ CallIsDigitalActionActivatedConstant

SpecFree == Init /\ [][NextFree]_vars

(* ------------------------------ claims -------------------------------- *)

\* The digital state the runtime holds for the action the latest call was
\* about.  No step between that call and now has changed it: the next
\* update overwrites `last`.
Reported == rtDigital[last.handle]

FreeReductions ==
    {"isDigitalActionActivatedOnce", "isDigitalActionActivatedConstant"}

FreeGetters == {"getDigitalActionData", "getAnalogActionData"}

C2_OncePerPress ==
    (last.op \in SongAccessors /\ last.ret) => last.prior = "none"

\* C3: getDigitalActionData with an action that is not Digital, and
\* getAnalogActionData with one that is not Analog, log an error and throw,
\* without calling the runtime and without returning a value.
C3_TypeMismatchThrows ==
    /\ (last.op = "getDigitalActionData" /\ last.type # Digital)
       => /\ last.threw
          /\ ~last.returned
          /\ last.calls = <<>>
          /\ last.log = << "Action was passed to IVRInput getDigitalActionData without being a digital type." >>
    /\ (last.op = "getAnalogActionData" /\ last.type # Analog)
       => /\ last.threw
          /\ ~last.returned
          /\ last.calls = <<>>
          /\ last.log = << "Action was passed to IVRInput getAnalogActionData without being an analog type." >>

\* C3's case: getDigitalActionData was called with the analog action.
C3_Witness ==
    /\ last.op = "getDigitalActionData"
    /\ last.type = Analog
    /\ last.threw

\* C4: when the runtime's GetDigitalActionData or GetAnalogActionData answers
\* with an error code, the wrapper logs it, does not throw and returns the
\* zeroed struct, so both digital reductions return false for that call.
C4_RuntimeErrorIsLoggedOnly ==
    (/\ last.op \in FreeGetters \cup FreeReductions
     /\ last.calls # <<>>
     /\ rtGetError # VRInputError_None)
    => /\ last.error = rtGetError
       /\ ~last.threw
       /\ last.returned
       /\ last.log = << "Error getting IVRInput Digital Action Data for handle" >>
       /\ last.digital = ZeroDigitalActionData
       /\ last.analog = ZeroAnalogActionData
       /\ ~last.ret

\* C4's case: the runtime holds the button as pressed and answers the query
\* with an error.
C4_Witness ==
    /\ last.op = "isDigitalActionActivatedConstant"
    /\ last.type = Digital
    /\ last.error # VRInputError_None
    /\ Reported.bState
    /\ ~last.ret

\* C5: every UpdateStates makes exactly one UpdateActionState call, with one
\* action set; an error is logged, the call is not repeated, nothing is
\* thrown, and the accessors and UpdateStates can be called as before.
C5_UpdateOnce ==
    last.op = "UpdateStates"
    => /\ Len(last.calls) = 1
       /\ last.calls[1].fn = "UpdateActionState"
       /\ last.calls[1].count = 1
       /\ Len(last.calls[1].sets) = 1
       /\ ~last.threw
       /\ last.returned
       /\ last.log = IF last.error # VRInputError_None
                     THEN << "Error during IVRInput action state update." >>
                     ELSE <<>>
       /\ ENABLED Poll
       /\ ENABLED UpdateStates

\* C5's case: an update failed while a button was held.
C5_Witness ==
    /\ last.op = "UpdateStates"
    /\ last.error # VRInputError_None
    /\ \E h \in DigitalHandles : rtDigital[h].bState

\* C6: after construction no sequence of accessor and UpdateStates calls
\* changes an action's name, type or handle, nor the active action set
\* descriptor, which is (handle of the main set, no device restriction,
\* priority 0) at every UpdateStates call.
C6_Immutable ==
    /\ this = SteamIVRInput
    /\ this.m_activeActionSet =
          [ulActionSet |-> this.m_mainSet.handle,
           ulRestrictedToDevice |-> k_ulInvalidInputValueHandle,
           nPriority |-> 0]
    /\ last.op = "UpdateStates"
       => last.calls[1].sets = << [ulActionSet |-> this.m_mainSet.handle,
                                   ulRestrictedToDevice |->
                                       k_ulInvalidInputValueHandle,
                                   nPriority |-> 0] >>

\* C6's case: an update has gone through and the runtime holds a button as
\* pressed.
C6_Witness ==
    /\ last.op = "UpdateStates"
    /\ last.error = VRInputError_None
    /\ \E h \in DigitalHandles : rtDigital[h].bState /\ ~rtDigital[h].bChanged

\* C7 as stated: pushToTalk reports whether the push-to-talk button was just
\* pressed (pressed and changed), leftHandRoomDrag whether its button is
\* held down.
C7_PushToTalkJustPressed ==
    /\ (last.op = "pushToTalk" /\ last.error = VRInputError_None)
       => last.ret = (rtDigital[this.m_pushToTalk.handle].bState
                      /\ rtDigital[this.m_pushToTalk.handle].bChanged)
    /\ (last.op = "leftHandRoomDrag" /\ last.error = VRInputError_None)
       => last.ret = rtDigital[this.m_leftHandRoomDrag.handle].bState

\* C7 as amended: pushToTalk reports whether the push-to-talk button is held
\* down, as leftHandRoomDrag does for the left-hand drag button.
C7_PushToTalkHeld ==
    /\ (last.op = "pushToTalk" /\ last.error = VRInputError_None)
       => last.ret = rtDigital[this.m_pushToTalk.handle].bState
    /\ (last.op = "leftHandRoomDrag" /\ last.error = VRInputError_None)
       => last.ret = rtDigital[this.m_leftHandRoomDrag.handle].bState

\* C7's case: pushToTalk was called with the button down since before the
\* latest update.
C7_Witness ==
    /\ last.op = "pushToTalk"
    /\ last.error = VRInputError_None
    /\ rtDigital[this.m_pushToTalk.handle].bState
    /\ ~rtDigital[this.m_pushToTalk.handle].bChanged
    /\ last.ret

HoldMember(op) ==
    CASE op = "leftHandRoomTurn" -> this.m_leftHandRoomTurn
      [] op = "rightHandRoomTurn" -> this.m_rightHandRoomTurn
      [] op = "leftHandRoomDrag" -> this.m_leftHandRoomDrag
      [] op = "rightHandRoomDrag" -> this.m_rightHandRoomDrag
      [] op = "optionalOverrideLeftHandRoomTurn" ->
            this.m_optionalOverrideLeftHandRoomTurn
      [] op = "optionalOverrideRightHandRoomTurn" ->
            this.m_optionalOverrideRightHandRoomTurn
      [] op = "optionalOverrideLeftHandRoomDrag" ->
            this.m_optionalOverrideLeftHandRoomDrag
      [] op = "optionalOverrideRightHandRoomDrag" ->
            this.m_optionalOverrideRightHandRoomDrag
      [] op = "pushToTalk" -> this.m_pushToTalk

\* C9: the hold-style accessors (room turn and room drag of either hand,
\* their four optional-override variants, pushToTalk) return true at every
\* call for which the runtime reports their button as pressed, after any
\* number of updates, and false once it reports it released.
C9_HoldWhilePressed ==
    (last.op \in HoldAccessors /\ last.error = VRInputError_None)
    => /\ last.returned
       /\ last.ret = rtDigital[HoldMember(last.op).handle].bState

\* C9's case: a hold-style accessor was called with its button down since
\* before the latest update.
C9_Witness ==
    /\ last.op = "optionalOverrideRightHandRoomDrag"
    /\ last.ret
    /\ ~Reported.bChanged

SongMember(op) ==
    CASE op = "nextSong" -> this.m_nextTrack
      [] op = "previousSong" -> this.m_previousTrack
      [] op = "pausePlaySong" -> this.m_pausePlayTrack
      [] op = "stopSong" -> this.m_stopTrack

\* C11: every action SteamIVRInput declares is of type Digital and every
\* public accessor passes its own action to a digital reduction (one
\* GetDigitalActionData query for that action's handle), so no sequence of
\* accessor and UpdateStates calls reaches the type-mismatch throw.
C11_NoTypeMismatch ==
    /\ \A a \in Members : a.type = Digital
    /\ ~last.threw
    /\ last.op \in AccessorNames
       => /\ last.returned
          /\ last.type = Digital
          /\ last.arg = (IF last.op \in SongAccessors
                         THEN SongMember(last.op)
                         ELSE HoldMember(last.op)).name
          /\ Len(last.calls) = 1
          /\ last.calls[1].fn = "GetDigitalActionData"
          /\ last.calls[1].handle = (IF last.op \in SongAccessors
                                     THEN SongMember(last.op)
                                     ELSE HoldMember(last.op)).handle

\* C11's case: after an update, pushToTalk was called for a button that is
\* down, and returned.
C11_Witness ==
    /\ last.op = "pushToTalk"
    /\ last.returned
    /\ ~last.threw
    /\ last.ret
    /\ last.log = <<>>

====
